---- MODULE Spec2Model ----
(***************************************************************************)
(* The connection pool and request dispatcher of arangojs (class           *)
(* Connection): the task queue, the active-task counter, the two host      *)
(* cursors, the retry policy and the leader redirect.                      *)
(*                                                                         *)
(* JavaScript runs every handler to completion, so each action below is a  *)
(* whole handler: request(), or one transport callback, each including the *)
(* _runQueue() call that ends it, up to the transport call _runQueue       *)
(* makes. A transport that throws there makes _runQueue run callback(e) at *)
(* once: that callback is the next action, and no other is enabled before. *)
(*                                                                         *)
(* The exists() methods of Collection, View and Graph are modelled as what *)
(* they make of the outcome of their get() request.                        *)
(***************************************************************************)
EXTENDS Integers, Sequences, FiniteSets, TLC

\* ------------------------------------------------------------------ bounds
\* Number of request() calls in a run.
NumTasks == 2
\* Largest numeric config.maxRetries tried.
MaxRetriesTried == 1

\* ------------------------------------------------------- values of the code
\* task.host / RequestOptions.host left undefined.
NoHost == -1
\* Array.prototype.indexOf's "not found".
NotFound == -1
\* config.maxRetries === false, as a number that is no retry count.
RetriesFalse == -1
\* The config.maxRetries values tried.
MaxRetriesChoices == {RetriesFalse} \cup (0..MaxRetriesTried)
\* The agentOptions tried: _maxTasks is 1 or 2.
AgentOptionsChoices == [maxSockets : {1}, keepAlive : BOOLEAN]

Strategies == {"NONE", "ROUND_ROBIN", "ONE_RANDOM"}

\* The URLs a configuration or an x-arango-endpoint header may name.
Urls == {"http://h1", "tcp://h1", "http://h2"}

\* lib/sanitizeUrl: tcp is a synonym of http.
sanitizeUrl(url) == IF url = "tcp://h1" THEN "http://h1" ELSE url

\* The errors a transport may report or throw.
ConnRefused == [isSystemError |-> TRUE, syscall |-> "connect", code |-> "ECONNREFUSED"]
TimedOut == [isSystemError |-> TRUE, syscall |-> "connect", code |-> "ETIMEDOUT"]
ReadRefused == [isSystemError |-> TRUE, syscall |-> "read", code |-> "ECONNREFUSED"]
PlainError == [isSystemError |-> FALSE, syscall |-> "connect", code |-> "ECONNREFUSED"]
Errors == {ConnRefused, TimedOut, ReadRefused}
\* callback(null, res): no error.
NoError == [isSystemError |-> FALSE, syscall |-> "", code |-> ""]

\* The responses a transport may report: a status code and the value of the
\* x-arango-endpoint header ("" when the header is absent or empty).
\* Its content-type header ("" when absent) and its body: "" (empty), "json" (a
\* JSON object), "envelope" (a JSON object with the keys error, code,
\* errorMessage, errorNum) or "garbage" (not JSON).
Response(status, endpoint, contentType, body) ==
  [statusCode |-> status, endpoint |-> endpoint, contentType |-> contentType, body |-> body]
Responses ==
  {Response(200, "", "application/json", "json"),
   Response(503, "", "text/plain", ""),
   Response(200, "http://h2", "application/json", "json")}
    \cup {Response(503, u, "text/plain", "") : u \in {"http://h2", "tcp://h1"}}
\* callback(err): no response.
NoResponse == Response(0, "", "", "")

\* A header set with no header.
NoHeaders == [n \in {} |-> ""]

\* The options of a request without body, isBinary and headers.
PlainContent == [isBinary |-> FALSE, body |-> "none", headers |-> NoHeaders]

\* The request options tried: host (NoHost when undefined), allowDirtyRead,
\* expectBinary. A host is a valid index of the host list at the call.
RequestOptions(nHosts) ==
  {o @@ PlainContent :
     o \in [host : {NoHost} \cup (0..(nHosts - 1)), allowDirtyRead : {FALSE},
            expectBinary : {FALSE}]
              \cup {[host |-> NoHost, allowDirtyRead |-> TRUE, expectBinary |-> FALSE]}}

\* What a transport throws when it throws instead of taking the call.
Throws == {ConnRefused, PlainError}

VARIABLES
  agentOptions,            \* _agentOptions: [maxSockets, keepAlive]
  maxTasks,                \* _maxTasks
  loadBalancingStrategy,   \* _loadBalancingStrategy
  useFailOver,             \* _useFailOver
  shouldRetry,             \* _shouldRetry
  maxRetries,              \* _maxRetries
  activeTasks,             \* _activeTasks
  queue,                   \* _queue: task ids, head first
  urls,                    \* _urls (and _hosts, index for index)
  activeHost,              \* _activeHost
  activeDirtyHost,         \* _activeDirtyHost
  tasks,                   \* the Task objects created so far, by id
  pending,                 \* transport calls made whose callback has not run:
                           \* [task, host, thrown], thrown the error of a call that threw
  hist,                    \* per task, what has been observed of it (history)
  last,                    \* what the last handler was and decided (history)
  headers,                 \* _headers: header name -> value
  transactionId,           \* _transactionId
  closed,                  \* close() has been called (history)
  existsCall,              \* the exists() call of a Collection, View or Graph last made
  collection,              \* a Collection handle: _name, _idPrefix, and its rename
                           \* requests that have not settled (history)
  view                     \* a View handle: _name, and its rename requests that have
                           \* not settled (history)

config == <<agentOptions, maxTasks, loadBalancingStrategy, useFailOver, shouldRetry, maxRetries>>
session == <<headers, transactionId>>
handles == <<collection, view>>
connection == <<agentOptions, maxTasks, loadBalancingStrategy, useFailOver, shouldRetry,
                maxRetries, activeTasks, queue, urls, activeHost, activeDirtyHost, tasks,
                pending, hist, last, headers, transactionId, closed>>
vars == <<agentOptions, maxTasks, loadBalancingStrategy, useFailOver, shouldRetry, maxRetries,
          activeTasks, queue, urls, activeHost, activeDirtyHost, tasks, pending, hist, last,
          headers, transactionId, closed, existsCall, collection, view>>

\* ------------------------------------------------------------ host list
\* Array.prototype.indexOf, 0-based.
IndexOf(seq, x) ==
  IF \E i \in 1..Len(seq) : seq[i] = x
  THEN (CHOOSE i \in 1..Len(seq) : seq[i] = x /\ \A j \in 1..(i - 1) : seq[j] # x) - 1
  ELSE NotFound

MapSanitize(us) == [i \in 1..Len(us) |-> sanitizeUrl(us[i])]

\* Mutant of addToHostList: the new URLs are put in front (unshift).
addToHostList_Unshift(hostUrls, us) ==
  LET cleanUrls == MapSanitize(us)
      IsNew(url) == IndexOf(hostUrls, url) = NotFound
      newUrls == SelectSeq(cleanUrls, IsNew)
      after == newUrls \o hostUrls
  IN [urls |-> after,
      indices |-> [i \in 1..Len(cleanUrls) |-> IndexOf(after, cleanUrls[i])]]

\* Mutant of addToHostList: the URLs are pushed without filtering.
addToHostList_NoFilter(hostUrls, us) ==
  LET cleanUrls == MapSanitize(us)
      after == hostUrls \o cleanUrls
  IN [urls |-> after,
      indices |-> [i \in 1..Len(cleanUrls) |-> IndexOf(after, cleanUrls[i])]]

\* addToHostList(urls): the new host list and the returned indices.
addToHostList(hostUrls, us) ==
  LET cleanUrls == MapSanitize(us)
      IsNew(url) == IndexOf(hostUrls, url) = NotFound
      newUrls == SelectSeq(cleanUrls, IsNew)
      after == hostUrls \o newUrls
  IN [urls |-> after,
      indices |-> [i \in 1..Len(cleanUrls) |-> IndexOf(after, cleanUrls[i])]]

\* ------------------------------------------------------------ constructor
\* _maxTasks = maxSockets || 3, doubled with keepAlive.
MaxTasksOf(opts) ==
  LET base == IF opts.maxSockets # 0 THEN opts.maxSockets ELSE 3
  IN IF opts.keepAlive THEN base * 2 ELSE base

\* ---------------------------------------------------------------- history
\* What is observed of one task over its life: the host request() was given,
\* whether a leader redirect ever re-pinned it, how often it was handed to a
\* transport since request() or its last redirect, and how often its sink (the
\* promise's resolve or reject) was invoked.
NewHist(host) ==
  [origHost |-> host, redirected |-> FALSE, sends |-> 0, sinkCalls |-> 0]

\* No response body.
NoBody == [kind |-> "", of |-> ""]

\* The last handler: ev is "request", "error" (callback(err)) or "response"
\* (callback(null, res)); task and host are the task it was about and the host
\* that task had been sent to; err is the error; retries, sends and hosts are
\* task.retries, the task's count of sends and the number of hosts when the
\* handler was entered; requeued tells whether it queued the task again;
\* outcome is what it settled the promise with ("" when it did not); res is the
\* response a callback got and body the body of the response the promise was
\* settled with, hostId its arangojsHostId (NoHost when it has none); returned is
\* what an addToHostList call from outside returned.
Event(ev, t, host, err, retries, sends, hosts, requeued, outcome) ==
  [ev |-> ev, task |-> t, host |-> host, err |-> err, retries |-> retries,
   sends |-> sends, hosts |-> hosts, requeued |-> requeued, outcome |-> outcome,
   res |-> NoResponse, body |-> NoBody, hostId |-> NoHost, returned |-> <<>>]
NoEvent == Event("none", 0, NoHost, NoError, 0, 0, 0, FALSE, "")

\* A Task object no one refers to any more.
DeadTask ==
  [host |-> NoHost, allowDirtyRead |-> FALSE, expectBinary |-> FALSE,
   retries |-> 0, dirtyHeader |-> FALSE, headers |-> NoHeaders]

Referenced(t) == (\E i \in 1..Len(queue) : queue[i] = t) \/ (\E p \in pending : p.task = t)

\* The dispatcher's mutable state as one value, so that a handler and the
\* _runQueue call that ends it compose.
\* A settled task that neither the queue nor a callback refers to is garbage:
\* its fields are cleared, except the count of its sink's invocations.
Cur ==
  LET Garbage(t) == hist[t].sinkCalls > 0 /\ ~Referenced(t)
  IN [activeTasks |-> activeTasks, queue |-> queue, urls |-> urls,
      activeHost |-> activeHost, activeDirtyHost |-> activeDirtyHost,
      tasks |-> SubSeq([t \in 1..Len(tasks) |-> IF Garbage(t) THEN DeadTask ELSE tasks[t]],
                       1, Len(tasks)),
      pending |-> pending,
      hist |-> SubSeq([t \in 1..Len(hist) |->
                         IF Garbage(t)
                         THEN [NewHist(NoHost) EXCEPT !.sinkCalls = hist[t].sinkCalls]
                         ELSE hist[t]],
                      1, Len(hist)),
      last |-> NoEvent]

Becomes(s) ==
  /\ activeTasks' = s.activeTasks
  /\ queue' = s.queue
  /\ urls' = s.urls
  /\ activeHost' = s.activeHost
  /\ activeDirtyHost' = s.activeDirtyHost
  /\ tasks' = s.tasks
  /\ pending' = s.pending
  /\ hist' = s.hist
  /\ last' = s.last

\* The promise's resolve or reject is invoked for task t.
Sink(s, t, outcome) ==
  [s EXCEPT !.hist[t].sinkCalls = @ + 1, !.last.outcome = outcome]

\* ------------------------------------------------------------- interpreter
\* contentType.match(MIME_JSON)
MimeJson(contentType) ==
  contentType \in {"application/json", "application/javascript", "text/json; charset=utf-8"}

\* JSON.parse succeeds: "partial" is a JSON object with the keys error, code and
\* errorMessage only, "null" is the JSON text null.
Parses(body) == body \in {"json", "envelope", "partial", "null"}

\* What the interpreter makes of a body: JSON.parse's value, the body's text
\* (toString("utf-8")) or the body as received.
Value(body) == [kind |-> "value", of |-> body]
Text(body) == [kind |-> "text", of |-> body]
Raw(body) == [kind |-> "raw", of |-> body]

\* parsedBody && the four hasOwnProperty tests: only a parsed JSON object has
\* own keys.
IsErrorEnvelope(parsedBody) == parsedBody.kind = "value" /\ parsedBody.of = "envelope"

\* Mutant of resolve: an error envelope counts only with a status of 400 or more.
resolve_EnvelopeNeedsErrorStatus(res, expectBinary) ==
  LET tryParse == res.body # "" /\ res.contentType # "" /\ MimeJson(res.contentType)
      parsed == tryParse /\ Parses(res.body)
      parsedBody == IF tryParse
                    THEN (IF parsed THEN Value(res.body) ELSE Raw(res.body))
                    ELSE IF ~expectBinary THEN Text(res.body)
                    ELSE Raw(res.body)
  IN IF tryParse /\ ~parsed /\ ~expectBinary
     THEN [outcome |-> "ParseError", body |-> Raw(res.body)]
     ELSE IF IsErrorEnvelope(parsedBody) /\ res.statusCode >= 400
     THEN [outcome |-> "ArangoError", body |-> parsedBody]
     ELSE IF res.statusCode # 0 /\ res.statusCode >= 400
     THEN [outcome |-> "HttpError", body |-> parsedBody]
     ELSE [outcome |-> "resolved",
           body |-> IF expectBinary THEN Raw(res.body) ELSE parsedBody]

\* Mutant of resolve: a successful response keeps the body as received.
resolve_KeepsReceivedBody(res, expectBinary) ==
  LET tryParse == res.body # "" /\ res.contentType # "" /\ MimeJson(res.contentType)
      parsed == tryParse /\ Parses(res.body)
      parsedBody == IF tryParse
                    THEN (IF parsed THEN Value(res.body) ELSE Raw(res.body))
                    ELSE IF ~expectBinary THEN Text(res.body)
                    ELSE Raw(res.body)
  IN IF tryParse /\ ~parsed /\ ~expectBinary
     THEN [outcome |-> "ParseError", body |-> Raw(res.body)]
     ELSE IF IsErrorEnvelope(parsedBody)
     THEN [outcome |-> "ArangoError", body |-> parsedBody]
     ELSE IF res.statusCode # 0 /\ res.statusCode >= 400
     THEN [outcome |-> "HttpError", body |-> parsedBody]
     ELSE [outcome |-> "resolved",
           body |-> Raw(res.body)]

\* Mutant of resolve: a parse error is surfaced also with expectBinary.
resolve_ParseErrorAlways(res, expectBinary) ==
  LET tryParse == res.body # "" /\ res.contentType # "" /\ MimeJson(res.contentType)
      parsed == tryParse /\ Parses(res.body)
      parsedBody == IF tryParse
                    THEN (IF parsed THEN Value(res.body) ELSE Raw(res.body))
                    ELSE IF ~expectBinary THEN Text(res.body)
                    ELSE Raw(res.body)
  IN IF tryParse /\ ~parsed
     THEN [outcome |-> "ParseError", body |-> Raw(res.body)]
     ELSE IF IsErrorEnvelope(parsedBody)
     THEN [outcome |-> "ArangoError", body |-> parsedBody]
     ELSE IF res.statusCode # 0 /\ res.statusCode >= 400
     THEN [outcome |-> "HttpError", body |-> parsedBody]
     ELSE [outcome |-> "resolved",
           body |-> IF expectBinary THEN Raw(res.body) ELSE parsedBody]

\* task.resolve(res): how the promise is settled, and the body of the response
\* it is settled with.  res.body is a Buffer, which is truthy also when empty.
resolve(res, expectBinary) ==
  LET tryParse == res.body # "" /\ res.contentType # "" /\ MimeJson(res.contentType)
      parsed == tryParse /\ Parses(res.body)
      parsedBody == IF tryParse
                    THEN (IF parsed THEN Value(res.body) ELSE Raw(res.body))
                    ELSE IF ~expectBinary THEN Text(res.body)
                    ELSE Raw(res.body)
  IN IF tryParse /\ ~parsed /\ ~expectBinary
     THEN [outcome |-> "ParseError", body |-> Raw(res.body)]
     ELSE IF IsErrorEnvelope(parsedBody)
     THEN [outcome |-> "ArangoError", body |-> parsedBody]
     ELSE IF res.statusCode # 0 /\ res.statusCode >= 400
     THEN [outcome |-> "HttpError", body |-> parsedBody]
     ELSE [outcome |-> "resolved",
           body |-> IF expectBinary THEN Raw(res.body) ELSE parsedBody]

\* -------------------------------------------------------------- _runQueue
\* Mutant of Idle: the slot test is off by one.
Idle_OffByOne(s) == Len(s.queue) = 0 \/ s.activeTasks > maxTasks

\* Mutant of Idle: the last slot is never used.
Idle_LeavesOneFree(s) == Len(s.queue) = 0 \/ s.activeTasks >= maxTasks - 1

\* Mutant of Idle: nothing is dispatched once close() was called.
Idle_Closed(s) == closed \/ Len(s.queue) = 0 \/ s.activeTasks >= maxTasks

\* if (!this._queue.length || this._activeTasks >= this._maxTasks) return;
Idle(s) == Len(s.queue) = 0 \/ s.activeTasks >= maxTasks

\* Mutant of SelectHost: the pin is tested for truthiness, so host 0 is no pin.
SelectHost_TruthyPin(s, task) ==
  IF task.host # NoHost /\ task.host # 0 THEN task.host
  ELSE IF task.allowDirtyRead THEN s.activeDirtyHost
  ELSE s.activeHost

\* The host the head task is sent to.
SelectHost(s, task) ==
  IF task.host # NoHost THEN task.host
  ELSE IF task.allowDirtyRead THEN s.activeDirtyHost
  ELSE s.activeHost

\* Mutant of Dispatch: the primary cursor advances under every policy.
Dispatch_EveryPolicyRotates(s) ==
  LET t == Head(s.queue)
      task == s.tasks[t]
      n == Len(s.urls)
      host == SelectHost(s, task)
      dirty == task.host = NoHost /\ task.allowDirtyRead
      roundRobin == /\ task.host = NoHost
                    /\ ~task.allowDirtyRead
  IN [state |-> [s EXCEPT !.queue = Tail(@),
                          !.activeDirtyHost = IF dirty THEN (@ + 1) % n ELSE @,
                          !.activeHost = IF roundRobin THEN (@ + 1) % n ELSE @,
                          !.tasks[t].dirtyHeader = @ \/ dirty,
                          !.activeTasks = @ + 1,
                          !.hist[t].sends = @ + 1],
      task |-> t,
      host |-> host]

\* Mutant of Dispatch: ROUND_ROBIN advances the primary cursor by two.
Dispatch_SkipsAHost(s) ==
  LET t == Head(s.queue)
      task == s.tasks[t]
      n == Len(s.urls)
      host == SelectHost(s, task)
      dirty == task.host = NoHost /\ task.allowDirtyRead
      roundRobin == /\ task.host = NoHost
                    /\ ~task.allowDirtyRead
                    /\ loadBalancingStrategy = "ROUND_ROBIN"
  IN [state |-> [s EXCEPT !.queue = Tail(@),
                          !.activeDirtyHost = IF dirty THEN (@ + 1) % n ELSE @,
                          !.activeHost = IF roundRobin THEN (@ + 2) % n ELSE @,
                          !.tasks[t].dirtyHeader = @ \/ dirty,
                          !.activeTasks = @ + 1,
                          !.hist[t].sends = @ + 1],
      task |-> t,
      host |-> host]

\* Mutant of Dispatch: the dirty-read cursor is not advanced.
Dispatch_DirtyCursorStuck(s) ==
  LET t == Head(s.queue)
      task == s.tasks[t]
      n == Len(s.urls)
      host == SelectHost(s, task)
      dirty == task.host = NoHost /\ task.allowDirtyRead
      roundRobin == /\ task.host = NoHost
                    /\ ~task.allowDirtyRead
                    /\ loadBalancingStrategy = "ROUND_ROBIN"
  IN [state |-> [s EXCEPT !.queue = Tail(@),
                          !.activeDirtyHost = @,
                          !.activeHost = IF roundRobin THEN (@ + 1) % n ELSE @,
                          !.tasks[t].dirtyHeader = @ \/ dirty,
                          !.activeTasks = @ + 1,
                          !.hist[t].sends = @ + 1],
      task |-> t,
      host |-> host]

\* Mutant of Dispatch: the default headers are applied again when the task is
\* sent.
Dispatch_HeadersWhenSent(s) ==
  LET t == Head(s.queue)
      task == s.tasks[t]
      n == Len(s.urls)
      host == SelectHost(s, task)
      dirty == task.host = NoHost /\ task.allowDirtyRead
      roundRobin == /\ task.host = NoHost
                    /\ ~task.allowDirtyRead
                    /\ loadBalancingStrategy = "ROUND_ROBIN"
  IN [state |-> [s EXCEPT !.queue = Tail(@),
                          !.activeDirtyHost = IF dirty THEN (@ + 1) % n ELSE @,
                          !.activeHost = IF roundRobin THEN (@ + 1) % n ELSE @,
                          !.tasks[t].dirtyHeader = @ \/ dirty,
                          !.tasks[t].headers =
                             [x \in DOMAIN @ \cup DOMAIN headers |->
                                IF x \in DOMAIN headers THEN headers[x] ELSE @[x]],
                          !.activeTasks = @ + 1,
                          !.hist[t].sends = @ + 1],
      task |-> t,
      host |-> host]

\* Mutant of Dispatch: under ROUND_ROBIN a dirty read advances the primary
\* cursor too.
Dispatch_DirtyAlsoRotates(s) ==
  LET t == Head(s.queue)
      task == s.tasks[t]
      n == Len(s.urls)
      host == SelectHost(s, task)
      dirty == task.host = NoHost /\ task.allowDirtyRead
      roundRobin == /\ task.host = NoHost
                    /\ loadBalancingStrategy = "ROUND_ROBIN"
  IN [state |-> [s EXCEPT !.queue = Tail(@),
                          !.activeDirtyHost = IF dirty THEN (@ + 1) % n ELSE @,
                          !.activeHost = IF roundRobin THEN (@ + 1) % n ELSE @,
                          !.tasks[t].dirtyHeader = @ \/ dirty,
                          !.activeTasks = @ + 1,
                          !.hist[t].sends = @ + 1],
      task |-> t,
      host |-> host]

\* Mutant of Dispatch: the task is taken from the tail of the queue (pop).
Dispatch_FromTail(s) ==
  LET t == s.queue[Len(s.queue)]
      task == s.tasks[t]
      n == Len(s.urls)
      host == SelectHost(s, task)
      dirty == task.host = NoHost /\ task.allowDirtyRead
      roundRobin == /\ task.host = NoHost
                    /\ ~task.allowDirtyRead
                    /\ loadBalancingStrategy = "ROUND_ROBIN"
  IN [state |-> [s EXCEPT !.queue = SubSeq(@, 1, Len(@) - 1),
                          !.activeDirtyHost = IF dirty THEN (@ + 1) % n ELSE @,
                          !.activeHost = IF roundRobin THEN (@ + 1) % n ELSE @,
                          !.tasks[t].dirtyHeader = @ \/ dirty,
                          !.activeTasks = @ + 1,
                          !.hist[t].sends = @ + 1],
      task |-> t,
      host |-> host]

\* Dequeue the head task, choose its host, advance the cursors, count it active.
Dispatch(s) ==
  LET t == Head(s.queue)
      task == s.tasks[t]
      n == Len(s.urls)
      host == SelectHost(s, task)
      dirty == task.host = NoHost /\ task.allowDirtyRead
      roundRobin == /\ task.host = NoHost
                    /\ ~task.allowDirtyRead
                    /\ loadBalancingStrategy = "ROUND_ROBIN"
  IN [state |-> [s EXCEPT !.queue = Tail(@),
                          !.activeDirtyHost = IF dirty THEN (@ + 1) % n ELSE @,
                          !.activeHost = IF roundRobin THEN (@ + 1) % n ELSE @,
                          !.tasks[t].dirtyHeader = @ \/ dirty,
                          !.activeTasks = @ + 1,
                          !.hist[t].sends = @ + 1],
      task |-> t,
      host |-> host]

\* Mutant of IsConnRefused: the error code is not looked at.
IsConnRefused_AnyCode(err) == err.isSystemError /\ err.syscall = "connect"

\* isSystemError(err) && err.syscall === "connect" && err.code === "ECONNREFUSED"
IsConnRefused(err) ==
  err.isSystemError /\ err.syscall = "connect" /\ err.code = "ECONNREFUSED"

\* Mutant of RetryLimit: with maxRetries 0, one retry per known host.
RetryLimit_AllHosts(nHosts) == IF maxRetries # 0 THEN maxRetries ELSE nHosts

\* Mutant of RetryLimit: maxRetries counts per host.
RetryLimit_PerHost(nHosts) == IF maxRetries # 0 THEN maxRetries * nHosts ELSE nHosts - 1

\* this._maxRetries || this._hosts.length - 1
RetryLimit(nHosts) == IF maxRetries # 0 THEN maxRetries ELSE nHosts - 1

\* !task.host: undefined and 0 are both falsy.
HostFalsy(task) == task.host = NoHost \/ task.host = 0

\* Mutant of ShouldRequeue: _shouldRetry is not looked at.
ShouldRequeue_IgnoresSwitch(s, task, err) ==
  /\ HostFalsy(task)
  /\ task.retries < RetryLimit(Len(s.urls))
  /\ IsConnRefused(err)

\* Mutant of ShouldRequeue: one retry more than the limit.
ShouldRequeue_OneMore(s, task, err) ==
  /\ HostFalsy(task)
  /\ shouldRetry
  /\ task.retries <= RetryLimit(Len(s.urls))
  /\ IsConnRefused(err)

\* The condition under which a failed task is queued again.
ShouldRequeue(s, task, err) ==
  /\ HostFalsy(task)
  /\ shouldRetry
  /\ task.retries < RetryLimit(Len(s.urls))
  /\ IsConnRefused(err)

\* Mutant of Failover: the cursor is compared with the task's pin, not with the
\* host the task was sent to.
Failover_ComparesPin(s, task, host) ==
  IF /\ ~task.allowDirtyRead
     /\ Len(s.urls) > 1
     /\ s.activeHost = task.host
     /\ useFailOver
  THEN [s EXCEPT !.activeHost = (@ + 1) % Len(s.urls)]
  ELSE s

\* Mutant of Failover: the cursor is advanced without wrapping around.
Failover_NoWrap(s, task, host) ==
  IF /\ ~task.allowDirtyRead
     /\ Len(s.urls) > 1
     /\ s.activeHost = host
     /\ useFailOver
  THEN [s EXCEPT !.activeHost = @ + 1]
  ELSE s

\* Mutant of Failover: the cursor is advanced whether or not it still points to
\* the host that failed.
Failover_NoCursorTest(s, task, host) ==
  IF /\ ~task.allowDirtyRead
     /\ Len(s.urls) > 1
     /\ useFailOver
  THEN [s EXCEPT !.activeHost = (@ + 1) % Len(s.urls)]
  ELSE s

\* The primary cursor after a transport error of a task sent to host.
Failover(s, task, host) ==
  IF /\ ~task.allowDirtyRead
     /\ Len(s.urls) > 1
     /\ s.activeHost = host
     /\ useFailOver
  THEN [s EXCEPT !.activeHost = (@ + 1) % Len(s.urls)]
  ELSE s

\* Mutant of OnError: the else is missing, a retried task is rejected too.
OnError_RejectToo(s, t, host, err) ==
  LET s1 == Failover(s, s.tasks[t], host)
      again == ShouldRequeue(s1, s1.tasks[t], err)
      s2 == [s1 EXCEPT !.last = Event("error", t, host, err, s.tasks[t].retries,
                                      s.hist[t].sends, Len(s.urls), again, "")]
      s3 == IF again
            THEN [s2 EXCEPT !.tasks[t].retries = @ + 1, !.queue = Append(@, t)]
            ELSE s2
  IN Sink(s3, t, "TransportError")

\* Mutant of OnError: a task out of retries is dropped without rejecting it.
OnError_Drops(s, t, host, err) ==
  LET s1 == Failover(s, s.tasks[t], host)
      again == ShouldRequeue(s1, s1.tasks[t], err)
      s2 == [s1 EXCEPT !.last = Event("error", t, host, err, s.tasks[t].retries,
                                      s.hist[t].sends, Len(s.urls), again, "")]
  IN IF again
     THEN [s2 EXCEPT !.tasks[t].retries = @ + 1, !.queue = Append(@, t)]
     ELSE IF IsConnRefused(err) THEN s2
     ELSE Sink(s2, t, "TransportError")

\* callback(err): the error branch.
OnError(s, t, host, err) ==
  LET s1 == Failover(s, s.tasks[t], host)
      again == ShouldRequeue(s1, s1.tasks[t], err)
      s2 == [s1 EXCEPT !.last = Event("error", t, host, err, s.tasks[t].retries,
                                      s.hist[t].sends, Len(s.urls), again, "")]
  IN IF again
     THEN [s2 EXCEPT !.tasks[t].retries = @ + 1, !.queue = Append(@, t)]
     ELSE Sink(s2, t, "TransportError")

\* Mutant of IsLeaderRedirect: the header alone makes a redirect.
IsLeaderRedirect_AnyStatus(res) == res.endpoint # ""

\* response.statusCode === 503 && response.headers[LEADER_ENDPOINT_HEADER]
IsLeaderRedirect(res) == res.statusCode = 503 /\ res.endpoint # ""

\* Mutant of OnResponse: a leader redirect is counted as a retry.
OnResponse_RedirectCounts(s, t, host, res) ==
  LET redirect == IsLeaderRedirect(res)
      s1 == [s EXCEPT !.last = [Event("response", t, host, NoError, s.tasks[t].retries,
                                      s.hist[t].sends, Len(s.urls), redirect, "")
                                  EXCEPT !.res = res]]
      settled == resolve(res, s1.tasks[t].expectBinary)
  IN IF redirect
     THEN LET added == addToHostList(s1.urls, <<res.endpoint>>)
              index == added.indices[1]
          IN [s1 EXCEPT !.urls = added.urls,
                        !.tasks[t].host = index,
                        !.tasks[t].retries = @ + 1,
                        !.activeHost = IF @ = host THEN index ELSE @,
                        !.queue = Append(@, t),
                        !.hist[t].redirected = TRUE,
                        !.hist[t].sends = 0]
     ELSE [Sink(s1, t, settled.outcome) EXCEPT !.last.body = settled.body,
                                               !.last.hostId = host]

\* Mutant of OnResponse: a redirect moves the primary cursor to the leader
\* wherever it points.
OnResponse_CursorAlwaysToLeader(s, t, host, res) ==
  LET redirect == IsLeaderRedirect(res)
      s1 == [s EXCEPT !.last = [Event("response", t, host, NoError, s.tasks[t].retries,
                                      s.hist[t].sends, Len(s.urls), redirect, "")
                                  EXCEPT !.res = res]]
      settled == resolve(res, s1.tasks[t].expectBinary)
  IN IF redirect
     THEN LET added == addToHostList(s1.urls, <<res.endpoint>>)
              index == added.indices[1]
          IN [s1 EXCEPT !.urls = added.urls,
                        !.tasks[t].host = index,
                        !.activeHost = index,
                        !.queue = Append(@, t),
                        !.hist[t].redirected = TRUE,
                        !.hist[t].sends = 0]
     ELSE [Sink(s1, t, settled.outcome) EXCEPT !.last.body = settled.body,
                                               !.last.hostId = host]

\* Mutant of OnResponse: the else is missing, a redirected task is settled too.
OnResponse_RedirectAlsoResolves(s, t, host, res) ==
  LET redirect == IsLeaderRedirect(res)
      s1 == [s EXCEPT !.last = [Event("response", t, host, NoError, s.tasks[t].retries,
                                      s.hist[t].sends, Len(s.urls), redirect, "")
                                  EXCEPT !.res = res]]
      settled == resolve(res, s1.tasks[t].expectBinary)
      s2 == IF redirect
            THEN LET added == addToHostList(s1.urls, <<res.endpoint>>)
                     index == added.indices[1]
                 IN [s1 EXCEPT !.urls = added.urls,
                               !.tasks[t].host = index,
                               !.activeHost = IF @ = host THEN index ELSE @,
                               !.queue = Append(@, t),
                               !.hist[t].redirected = TRUE,
                               !.hist[t].sends = 0]
            ELSE s1
  IN [Sink(s2, t, settled.outcome) EXCEPT !.last.body = settled.body,
                                          !.last.hostId = host]

\* Mutant of OnResponse: the origin host id is read from the primary cursor.
OnResponse_HostIdFromCursor(s, t, host, res) ==
  LET redirect == IsLeaderRedirect(res)
      s1 == [s EXCEPT !.last = [Event("response", t, host, NoError, s.tasks[t].retries,
                                      s.hist[t].sends, Len(s.urls), redirect, "")
                                  EXCEPT !.res = res]]
      settled == resolve(res, s1.tasks[t].expectBinary)
  IN IF redirect
     THEN LET added == addToHostList(s1.urls, <<res.endpoint>>)
              index == added.indices[1]
          IN [s1 EXCEPT !.urls = added.urls,
                        !.tasks[t].host = index,
                        !.activeHost = IF @ = host THEN index ELSE @,
                        !.queue = Append(@, t),
                        !.hist[t].redirected = TRUE,
                        !.hist[t].sends = 0]
     ELSE [Sink(s1, t, settled.outcome) EXCEPT !.last.body = settled.body,
                                               !.last.hostId = s1.activeHost]

\* callback(null, res): the response branch.
OnResponse(s, t, host, res) ==
  LET redirect == IsLeaderRedirect(res)
      s1 == [s EXCEPT !.last = [Event("response", t, host, NoError, s.tasks[t].retries,
                                      s.hist[t].sends, Len(s.urls), redirect, "")
                                  EXCEPT !.res = res]]
      settled == resolve(res, s1.tasks[t].expectBinary)
  IN IF redirect
     THEN LET added == addToHostList(s1.urls, <<res.endpoint>>)
              index == added.indices[1]
          IN [s1 EXCEPT !.urls = added.urls,
                        !.tasks[t].host = index,
                        !.activeHost = IF @ = host THEN index ELSE @,
                        !.queue = Append(@, t),
                        !.hist[t].redirected = TRUE,
                        !.hist[t].sends = 0]
     ELSE [Sink(s1, t, settled.outcome) EXCEPT !.last.body = settled.body,
                                               !.last.hostId = host]

\* The callback of one transport call, up to its closing this._runQueue().
callback(s, p, err, res) ==
  LET s1 == [s EXCEPT !.activeTasks = @ - 1, !.pending = @ \ {p}]
  IN IF err # NoError
     THEN OnError(s1, p.task, p.host, err)
     ELSE OnResponse(s1, p.task, p.host, res)

\* Mutant of runQueue: the task is counted active after the transport call, so
\* a call that throws is not counted.
runQueue_CountsAfterCall(s, thrown) ==
  IF Idle(s) THEN s
  ELSE LET d == Dispatch(s)
       IN [d.state EXCEPT
             !.activeTasks = IF thrown # NoError THEN @ - 1 ELSE @,
             !.pending = @ \cup {[task |-> d.task, host |-> d.host, thrown |-> thrown]}]

\* _runQueue(): one task is dispatched if there is one and a slot is free. Its
\* transport takes the call (thrown = NoError) or throws thrown.
runQueue(s, thrown) ==
  IF Idle(s) THEN s
  ELSE LET d == Dispatch(s)
       IN [d.state EXCEPT
             !.pending = @ \cup {[task |-> d.task, host |-> d.host, thrown |-> thrown]}]

\* What the transport that _runQueue calls in state s may do.
TransportCalls(s) == IF Idle(s) THEN {NoError} ELSE {NoError} \cup Throws

\* A transport has thrown and its callback(e) has not run yet.
Throwing == \E p \in pending : p.thrown # NoError

\* ----------------------------------------------------------------- headers
\* _transactionId: null, or the string set.
NoTransactionId == [isNull |-> TRUE, id |-> ""]
TransactionId(id) == [isNull |-> FALSE, id |-> id]

\* String(this._arangoVersion), with the default _arangoVersion.
ArangoVersion == "30400"

\* Mutant of Spread: the first object's value wins.
Spread_FirstWins(a, b) ==
  [n \in DOMAIN a \cup DOMAIN b |-> IF n \in DOMAIN a THEN a[n] ELSE b[n]]

\* { ...a, ...b }
Spread(a, b) ==
  [n \in DOMAIN a \cup DOMAIN b |-> IF n \in DOMAIN b THEN b[n] ELSE a[n]]

\* The content type request() derives from isBinary and body; body is "none"
\* (absent or falsy), "object" or "string".
ContentTypeOf(opt) ==
  IF opt.isBinary THEN "application/octet-stream"
  ELSE IF opt.body = "object" THEN "application/json"
  ELSE "text/plain"

\* Mutant of ExtraHeaders: _transactionId is tested against null only.
ExtraHeaders_NullTestOnly(opt) ==
  LET core == Spread(headers, [n \in {"content-type", "x-arango-version"} |->
                                 IF n = "content-type" THEN ContentTypeOf(opt)
                                 ELSE ArangoVersion])
  IN IF ~transactionId.isNull
     THEN Spread(core, [n \in {"x-arango-trx-id"} |-> transactionId.id])
     ELSE core

\* extraHeaders: _headers, then content-type and x-arango-version, then
\* x-arango-trx-id if _transactionId is truthy.
ExtraHeaders(opt) ==
  LET core == Spread(headers, [n \in {"content-type", "x-arango-version"} |->
                                 IF n = "content-type" THEN ContentTypeOf(opt)
                                 ELSE ArangoVersion])
  IN IF ~transactionId.isNull /\ transactionId.id # ""
     THEN Spread(core, [n \in {"x-arango-trx-id"} |-> transactionId.id])
     ELSE core

\* task.options.headers: { ...extraHeaders, ...headers }
RequestHeaders(opt) == Spread(ExtraHeaders(opt), opt.headers)

\* The this._runQueue() call that ends a handler in state s: the transport it
\* calls, if any, takes the call or throws.
Finish(s) ==
  \E thrown \in TransportCalls(s) : \E s1 \in {runQueue(s, thrown)} : Becomes(s1)

\* ---------------------------------------------------------------- actions
\* request(options): a task with retries 0 is queued and _runQueue is called.
Request(opt) ==
  /\ ~Throwing
  /\ Len(tasks) < NumTasks
  /\ LET t == Len(tasks) + 1
         task == [host |-> opt.host, allowDirtyRead |-> opt.allowDirtyRead,
                  expectBinary |-> opt.expectBinary, retries |-> 0,
                  dirtyHeader |-> FALSE, headers |-> RequestHeaders(opt)]
     IN \E s1 \in {[Cur EXCEPT !.tasks = Append(@, task),
                                !.hist = Append(@, NewHist(opt.host)),
                                !.queue = Append(@, t),
                                !.last = Event("request", t, NoHost, NoError, 0, 0,
                                               Len(urls), FALSE, "")]} :
          Finish(s1)
  /\ UNCHANGED <<config, session, closed, existsCall, handles>>

\* A transport reports an error: callback(err).
TransportError(p, err) ==
  /\ ~Throwing
  /\ p \in pending
  /\ \E s1 \in {callback(Cur, p, err, NoResponse)} : Finish(s1)
  /\ UNCHANGED <<config, session, closed, existsCall, handles>>

\* A transport reports a response: callback(null, res).
TransportResponse(p, res) ==
  /\ ~Throwing
  /\ p \in pending
  /\ \E s1 \in {callback(Cur, p, NoError, res)} : Finish(s1)
  /\ UNCHANGED <<config, session, closed, existsCall, handles>>

\* The transport _runQueue just called has thrown e: catch (e) { callback(e) }.
TransportThrew(p) ==
  /\ p \in pending
  /\ p.thrown # NoError
  /\ \E s1 \in {callback(Cur, p, p.thrown, NoResponse)} : Finish(s1)
  /\ UNCHANGED <<config, session, closed, existsCall, handles>>

\* setTransactionId(transactionId)
SetTransactionId(id) ==
  /\ ~Throwing
  /\ transactionId' = TransactionId(id)
  /\ Becomes(Cur)
  /\ UNCHANGED <<config, headers, closed, existsCall, handles>>

\* clearTransactionId()
ClearTransactionId ==
  /\ ~Throwing
  /\ transactionId' = NoTransactionId
  /\ Becomes(Cur)
  /\ UNCHANGED <<config, headers, closed, existsCall, handles>>

\* setHeader(headerName, value)
SetHeader(headerName, value) ==
  /\ ~Throwing
  /\ headers' = Spread(headers, [n \in {headerName} |-> value])
  /\ Becomes(Cur)
  /\ UNCHANGED <<config, transactionId, closed, existsCall, handles>>

\* setHeader(headerName, null)
ClearHeader(headerName) ==
  /\ ~Throwing
  /\ headers' = [n \in DOMAIN headers \ {headerName} |-> headers[n]]
  /\ Becomes(Cur)
  /\ UNCHANGED <<config, transactionId, closed, existsCall, handles>>

\* addToHostList(urls), called from outside the dispatcher
AddToHostList(us) ==
  /\ ~Throwing
  /\ \E added \in {addToHostList(urls, us)} :
       Becomes([Cur EXCEPT !.urls = added.urls,
                           !.last = [Event("addToHostList", 0, NoHost, NoError, 0, 0,
                                           Len(urls), FALSE, "")
                                       EXCEPT !.returned = added.indices]])
  /\ UNCHANGED <<config, session, closed, existsCall, handles>>

\* close(): every host's close is called, which releases that transport's
\* sockets; nothing of the dispatcher is touched.
Close ==
  /\ ~Throwing
  /\ closed' = TRUE
  /\ Becomes([Cur EXCEPT !.last = Event("close", 0, NoHost, NoError, 0, 0,
                                        Len(urls), FALSE, "")])
  /\ UNCHANGED <<config, session, existsCall, handles>>

\* ------------------------------------------------------------------ exists
\* util/codes: the errorNum of the server's not-found errors.
COLLECTION_NOT_FOUND == 1203
VIEW_NOT_FOUND == 1203
GRAPH_NOT_FOUND == 1924

\* error.isArangoError(err)
isArangoError(err) == err.isArangoError

\* What the promise of get() is settled with: its value, or an error with its
\* isArangoError flag, its errorNum (0 when it has none) and its code.
GetErrors == [isArangoError : BOOLEAN, errorNum : {0, 1200, 1202, 1203, 1228, 1924},
              code : {404, 500}]
NoGetError == [isArangoError |-> FALSE, errorNum |-> 0, code |-> 0]
GetOutcomes ==
  {[ok |-> TRUE, err |-> NoGetError]} \cup {[ok |-> FALSE, err |-> e] : e \in GetErrors}

\* What an exists() promise is settled with.
Returns(value) == [settled |-> "resolved", value |-> value, err |-> NoGetError]
Rethrows(err) == [settled |-> "rejected", value |-> FALSE, err |-> err]
NotSettled == [settled |-> "", value |-> FALSE, err |-> NoGetError]

\* Mutant of Collection_exists: every ArangoError means the collection is missing.
Collection_exists_AnyArangoError(get) ==
  IF get.ok THEN Returns(TRUE)
  ELSE IF isArangoError(get.err) THEN Returns(FALSE)
  ELSE Rethrows(get.err)

\* Collection.exists()
Collection_exists(get) ==
  IF get.ok THEN Returns(TRUE)
  ELSE IF isArangoError(get.err) /\ get.err.errorNum = COLLECTION_NOT_FOUND THEN Returns(FALSE)
  ELSE Rethrows(get.err)

\* View.exists()
View_exists(get) ==
  IF get.ok THEN Returns(TRUE)
  ELSE IF isArangoError(get.err) /\ get.err.errorNum = VIEW_NOT_FOUND THEN Returns(FALSE)
  ELSE Rethrows(get.err)

\* Graph.exists()
Graph_exists(get) ==
  IF get.ok THEN Returns(TRUE)
  ELSE IF isArangoError(get.err) /\ get.err.errorNum = GRAPH_NOT_FOUND THEN Returns(FALSE)
  ELSE Rethrows(get.err)

Kinds == {"Collection", "View", "Graph"}
NoExistsCall == [kind |-> "", get |-> [ok |-> FALSE, err |-> NoGetError], result |-> NotSettled]

\* exists() is called on an object of the kind and awaits get(), which settles.
ExistsCalled(kind, get) ==
  /\ existsCall.kind = "" \/ existsCall.result # NotSettled
  /\ existsCall' = [kind |-> kind, get |-> get, result |-> NotSettled]
  /\ UNCHANGED <<connection, handles>>

\* exists() resumes after the await and settles its own promise.
ExistsReturns ==
  /\ existsCall.kind # ""
  /\ existsCall.result = NotSettled
  /\ existsCall' = [existsCall EXCEPT !.result =
                      IF existsCall.kind = "Collection" THEN Collection_exists(existsCall.get)
                      ELSE IF existsCall.kind = "View" THEN View_exists(existsCall.get)
                      ELSE Graph_exists(existsCall.get)]
  /\ UNCHANGED <<connection, handles>>

\* ------------------------------------------------------------------ rename
\* The names a handle is created with or renamed to.
Names == {"a", "b", "c"}

\* `${name}/`
IdPrefixOf(name) == <<name, "/">>

\* new Collection(db, name); renames: the names of the rename requests issued
\* and not settled.
NewCollection(name) == [name |-> name, idPrefix |-> IdPrefixOf(name), renames |-> {}]

\* new View(db, name)
NewView(name) == [name |-> name, renames |-> {}]

\* Mutant of Collection_rename: the request is not awaited, the handle is
\* renamed at once.
Collection_rename_NotAwaited(name) ==
  /\ name \notin collection.renames
  /\ collection' = [collection EXCEPT !.renames = @ \cup {name},
                                      !.name = name,
                                      !.idPrefix = IdPrefixOf(name)]
  /\ UNCHANGED <<connection, existsCall, view>>

\* Collection.rename(name), up to its await: the request is issued.
Collection_rename(name) ==
  /\ name \notin collection.renames
  /\ collection' = [collection EXCEPT !.renames = @ \cup {name}]
  /\ UNCHANGED <<connection, existsCall, view>>

\* Collection.rename(name), after its await: the request has succeeded (ok) and
\* the handle is renamed, or was rejected and the await throws.
Collection_renameResumes(name, ok) ==
  /\ name \in collection.renames
  /\ collection' = IF ok
                    THEN [name |-> name, idPrefix |-> IdPrefixOf(name),
                          renames |-> collection.renames \ {name}]
                    ELSE [collection EXCEPT !.renames = @ \ {name}]
  /\ UNCHANGED <<connection, existsCall, view>>

\* View.rename(newName): the request is issued and, without awaiting it, the
\* handle is renamed.
View_rename(newName) ==
  /\ newName \notin view.renames
  /\ view' = [name |-> newName, renames |-> view.renames \cup {newName}]
  /\ UNCHANGED <<connection, existsCall, collection>>

\* The rename request of a view settles: the promise View.rename returned is
\* resolved or rejected.
View_renameSettles(newName, ok) ==
  /\ newName \in view.renames
  /\ view' = [view EXCEPT !.renames = @ \ {newName}]
  /\ UNCHANGED <<connection, existsCall, collection>>

\* new Connection(config), without config.headers and config.arangoVersion
Constructed(opts, strategy, cfgMaxRetries, cfgUrls, h, dh) ==
  /\ agentOptions = opts
  /\ maxTasks = MaxTasksOf(opts)
  /\ loadBalancingStrategy = strategy
  /\ useFailOver = (strategy # "ROUND_ROBIN")
  /\ shouldRetry = (cfgMaxRetries # RetriesFalse)
  /\ maxRetries = (IF cfgMaxRetries = RetriesFalse THEN 0 ELSE cfgMaxRetries)
  /\ urls = addToHostList(<<>>, cfgUrls).urls
  /\ activeHost = (IF strategy = "ONE_RANDOM" THEN h ELSE 0)
  /\ activeDirtyHost = (IF strategy = "ONE_RANDOM" THEN dh ELSE 0)
  /\ activeTasks = 0
  /\ queue = <<>>
  /\ tasks = <<>>
  /\ pending = {}
  /\ hist = <<>>
  /\ last = NoEvent
  /\ headers = NoHeaders
  /\ transactionId = NoTransactionId
  /\ closed = FALSE
  /\ existsCall = NoExistsCall
  /\ collection = NewCollection("a")
  /\ view = NewView("a")

\* The config.url lists tried.
UrlLists == {<<"tcp://h1">>, <<"http://h1", "http://h2">>}

Init ==
  \E opts \in AgentOptionsChoices,
     strategy \in Strategies,
     cfgMaxRetries \in MaxRetriesChoices,
     cfgUrls \in UrlLists :
    LET n == Len(addToHostList(<<>>, cfgUrls).urls)
    IN \E h \in 0..(n - 1), dh \in 0..(n - 1) :
         Constructed(opts, strategy, cfgMaxRetries, cfgUrls, h, dh)

Next ==
  \/ \E opt \in RequestOptions(Len(urls)) : Request(opt)
  \/ \E p \in pending, err \in Errors : TransportError(p, err)
  \/ \E p \in pending, res \in Responses : TransportResponse(p, res)
  \/ \E p \in pending : TransportThrew(p)

Spec == Init /\ [][Next]_vars

\* ------------------------------------------------------------------ claims
TaskIds == 1..Len(tasks)

\* The task the last handler was about was submitted without a host and was
\* never redirected: it is unpinned.
LastUnpinned ==
  hist[last.task].origHost = NoHost /\ ~hist[last.task].redirected

\* The last handler was callback(err) and rejected the promise with err.
LastDelivered == last.ev = "error" /\ last.outcome = "TransportError"

\* The last handler was callback(err) and queued the task again.
LastAbsorbed == last.ev = "error" /\ last.requeued

\* C1: the number of requests in transport never exceeds maxSockets * 2 with
\* keepAlive and maxSockets without.
C1_ActiveWithinMax ==
  activeTasks <= (IF agentOptions.keepAlive
                  THEN agentOptions.maxSockets * 2
                  ELSE agentOptions.maxSockets)

\* The ceiling is reached while a task waits in the queue.
C1_Witness == activeTasks = maxTasks /\ Len(queue) > 0

\* C2: a task's sink is invoked at most once, and never while the task is in
\* the queue or in transport.
C2_SinkOnce ==
  \A t \in TaskIds :
    /\ hist[t].sinkCalls <= 1
    /\ hist[t].sinkCalls > 0 => ~Referenced(t)

\* A task that was queued again after a refused attempt has been settled.
C2_Witness ==
  /\ last.ev \in {"error", "response"}
  /\ last.outcome # ""
  /\ last.retries > 0
  /\ hist[last.task].sinkCalls = 1

\* C4 as claimed: a task submitted with host = h is only ever handed to the
\* transport of host h.
C4_OnlySubmittedHost ==
  \A p \in pending :
    hist[p.task].origHost # NoHost => p.host = hist[p.task].origHost

\* C4 as amended: a task submitted with host = h is handed to host h on every
\* attempt until a leader redirect of that task re-pins it; from then on, as
\* every pinned task, it is handed to the host it is pinned to.
C4_PinnedHostUnlessRedirected ==
  \A p \in pending :
    /\ (hist[p.task].origHost # NoHost /\ ~hist[p.task].redirected)
         => p.host = hist[p.task].origHost
    /\ tasks[p.task].host # NoHost => p.host = tasks[p.task].host

\* A task submitted with a host is in transport on that host, on a second
\* attempt, while the primary cursor points elsewhere.
C4_Witness ==
  \E p \in pending :
    /\ hist[p.task].origHost # NoHost
    /\ ~hist[p.task].redirected
    /\ hist[p.task].sends > 1
    /\ p.host # activeHost

\* C5: the first transport error of a task submitted with a host is delivered
\* to the caller; the task is never queued again for a retry.
C5_PinnedNeverRetried ==
  (last.ev = "error" /\ hist[last.task].origHost # NoHost)
    => (~last.requeued /\ last.outcome = "TransportError")

\* C6: with maxRetries = 0, a refused attempt of an unpinned task is retried as
\* long as the task has been sent fewer times than there are hosts, and the
\* error is delivered at the attempt that makes it as many.
C6_OneAttemptPerHost ==
  (/\ shouldRetry
   /\ maxRetries = 0
   /\ last.ev = "error"
   /\ last.err = ConnRefused
   /\ LastUnpinned)
    => /\ last.sends <= last.hosts
       /\ LastDelivered <=> last.sends = last.hosts
       /\ LastAbsorbed <=> last.sends < last.hosts

\* With two hosts the error is delivered at the second attempt.
C6_Witness ==
  /\ shouldRetry
  /\ maxRetries = 0
  /\ LastDelivered
  /\ last.err = ConnRefused
  /\ LastUnpinned
  /\ last.hosts = 2
  /\ last.sends = 2

\* C7: with maxRetries = m > 0, a refused attempt of an unpinned task is
\* retried as long as the task has been retried fewer than m times, and the
\* error is delivered at attempt m + 1, whatever the number of hosts.
C7_MaxRetriesVerbatim ==
  (/\ shouldRetry
   /\ maxRetries > 0
   /\ last.ev = "error"
   /\ last.err = ConnRefused
   /\ LastUnpinned)
    => /\ last.sends = last.retries + 1
       /\ last.retries <= maxRetries
       /\ LastDelivered <=> last.sends = maxRetries + 1
       /\ LastAbsorbed <=> last.sends <= maxRetries

\* With a single host the task was retried on it, and the error is delivered.
C7_Witness ==
  /\ shouldRetry
  /\ maxRetries > 0
  /\ LastDelivered
  /\ last.err = ConnRefused
  /\ LastUnpinned
  /\ last.hosts = 1
  /\ last.sends = maxRetries + 1

\* C8: with maxRetries = false no transport error queues a task again: the
\* error is delivered at once and no task ever has a retry counted.
C8_NoRetryWhenFalse ==
  ~shouldRetry
    => /\ \A t \in TaskIds : tasks[t].retries = 0
       /\ last.ev = "error"
            => /\ ~last.requeued
               /\ last.outcome = "TransportError"
               /\ hist[last.task].sinkCalls = 1
               /\ ~hist[last.task].redirected => last.sends = 1

\* A refused attempt of an unpinned task is delivered while a second host is known.
C8_Witness ==
  /\ ~shouldRetry
  /\ LastDelivered
  /\ last.err = ConnRefused
  /\ LastUnpinned
  /\ last.hosts = 2

\* C9: a transport error that is not a system error with syscall connect and
\* code ECONNREFUSED is delivered at that attempt; the task is not queued
\* again and its retries counter is unchanged.
C9_OtherErrorsDelivered ==
  (last.ev = "error" /\ last.err # ConnRefused)
    => /\ ~last.requeued
       /\ last.outcome = "TransportError"
       /\ hist[last.task].sinkCalls = 1
       /\ ~Referenced(last.task)
       /\ tasks[last.task].retries = last.retries

\* A timeout of an unpinned task that had retries left is delivered.
C9_Witness ==
  /\ LastDelivered
  /\ last.err = TimedOut
  /\ LastUnpinned
  /\ shouldRetry
  /\ maxRetries = 0
  /\ last.hosts = 2
  /\ last.retries = 0

\* C10: a transport error is delivered only when retries are off, the task is
\* pinned to a host, the error is not ECONNREFUSED on connect, or task.retries
\* has reached the effective maximum; otherwise it is not delivered, retries
\* grows by exactly one and the task is queued again.
C10_DeliveredOnlyIfIneligibleOrExhausted ==
  last.ev = "error"
    => LET t == last.task
           limit == IF maxRetries > 0 THEN maxRetries ELSE last.hosts - 1
           ineligible == \/ ~shouldRetry
                         \/ tasks[t].host # NoHost
                         \/ last.err # ConnRefused
           exhausted == last.retries >= limit
       IN /\ LastDelivered => (ineligible \/ exhausted)
          /\ ~(ineligible \/ exhausted)
               => /\ last.requeued
                  /\ last.outcome = ""
                  /\ hist[t].sinkCalls = 0
                  /\ tasks[t].retries = last.retries + 1
                  /\ Referenced(t)
          /\ last.retries <= limit

\* An error is absorbed and the task, with one retry more, waits in the queue
\* behind another task.
C10_Witness ==
  /\ LastAbsorbed
  /\ LastUnpinned
  /\ tasks[last.task].retries = last.retries + 1
  /\ Len(queue) > 0
  /\ queue[Len(queue)] = last.task

\* -------------------------------------------------------------- liveness
\* The transport reports an outcome for the attempt of task t that is in
\* transport: an error, a response, or the error it threw when it was called.
Report(t) ==
  \E p \in pending :
    /\ p.task = t
    /\ \/ \E err \in Errors : TransportError(p, err)
       \/ \E res \in Responses : TransportResponse(p, res)
       \/ TransportThrew(p)

\* A two-host connection with one socket, fail-over and the default maxRetries.
LiveInit ==
  Constructed([maxSockets |-> 1, keepAlive |-> FALSE], "NONE", 0,
              <<"http://h1", "http://h2">>, 0, 0)

\* Every transport call eventually reports an outcome.  The report of a task
\* is disabled while the callback of a throwing transport is due, so the
\* fairness is strong.
Fairness == \A t \in 1..NumTasks : SF_vars(Report(t))

LiveSpec == LiveInit /\ [][Next]_vars /\ Fairness

Submitted(t) == Len(tasks) >= t

Settled(t) == Len(tasks) >= t /\ hist[t].sinkCalls > 0

\* The last handler was the callback of a response that redirected task t to
\* the leader and queued it again.
RedirectedNow(t) == last.ev = "response" /\ last.requeued /\ last.task = t

NewlySent(t) ==
  /\ \E p \in pending' : p.task = t
  /\ \/ ~\E q \in pending : q.task = t
     \/ last'.task = t /\ last'.ev \in {"error", "response"}

\* The host the step sent task t to.
SentTo(t) == (CHOOSE p \in pending' : p.task = t).host

\* The step ran the callback of a transport error or of a leader redirect.
HandledErrorOrRedirect ==
  \/ last'.ev = "error"
  \/ last'.ev = "response" /\ last'.requeued

\* C11: under NONE the primary cursor starts at 0; under NONE and ONE_RANDOM it
\* changes only in a step that handles a transport error or a leader redirect,
\* and every unpinned non-dirty task sent is sent to the host it points to.
C11_PrimaryCursorStable ==
  /\ loadBalancingStrategy = "NONE" => activeHost = 0
  /\ [][loadBalancingStrategy # "ROUND_ROBIN"
         => /\ activeHost' # activeHost => HandledErrorOrRedirect
            /\ \A t \in 1..Len(tasks') :
                 (NewlySent(t) /\ tasks'[t].host = NoHost /\ ~tasks'[t].allowDirtyRead)
                   => SentTo(t) = activeHost']_vars

\* Under ONE_RANDOM with the second host picked, two unpinned non-dirty tasks
\* are in transport on that host at their first attempt.
C11_Witness ==
  /\ loadBalancingStrategy = "ONE_RANDOM"
  /\ activeHost = 1
  /\ Len(tasks) = 2
  /\ \A t \in TaskIds :
       /\ tasks[t].host = NoHost /\ ~tasks[t].allowDirtyRead
       /\ hist[t].sends = 1 /\ ~hist[t].redirected
       /\ \E p \in pending : p.task = t /\ p.host = 1

\* Runs with only unpinned non-dirty submissions, no transport errors (reported
\* or thrown) and no leader redirects, under ROUND_ROBIN.
PureOptions ==
  {[host |-> NoHost, allowDirtyRead |-> FALSE, expectBinary |-> FALSE] @@ PlainContent}

PureResponses == {res \in Responses : ~IsLeaderRedirect(res)}

RRInit ==
  \E opts \in AgentOptionsChoices, cfgMaxRetries \in MaxRetriesChoices, cfgUrls \in UrlLists :
    Constructed(opts, "ROUND_ROBIN", cfgMaxRetries, cfgUrls, 0, 0)

RRNext ==
  \/ \E opt \in PureOptions : Request(opt) /\ ~Throwing'
  \/ \E p \in pending, res \in PureResponses : TransportResponse(p, res) /\ ~Throwing'

RRSpec == RRInit /\ [][RRNext]_vars

\* C12: in such a run the k-th submitted task (k from 0) is executed on host
\* (0 + k) mod |hosts|, and the primary cursor points to the host of the next.
C12_RoundRobinOrder ==
  /\ \A p \in pending : p.host = (p.task - 1) % Len(urls)
  /\ last.ev = "response" => last.host = (last.task - 1) % Len(urls)
  /\ activeHost = (Len(tasks) - Len(queue)) % Len(urls)

\* The second task had to wait for the only slot and is in transport on the
\* second host.
C12_Witness ==
  /\ maxTasks = 1
  /\ Len(urls) = 2
  /\ last.ev = "response" /\ last.task = 1 /\ last.host = 0
  /\ \E p \in pending : p.task = 2 /\ p.host = 1

RedirectStep(p, res) == IsLeaderRedirect(res) /\ TransportResponse(p, res)

\* Task t, redirected to the host with index i, waits in the queue.
RedirectedTo(t, i) ==
  /\ Len(tasks) >= t
  /\ hist[t].redirected
  /\ tasks[t].host = i
  /\ \E k \in 1..Len(queue) : queue[k] = t

InterpStatuses == {200, 399, 400, 503}
InterpContentTypes == {"application/json", "text/json; charset=utf-8", "text/plain", ""}
Bodies == {"", "json", "envelope", "partial", "null", "garbage"}
InterpResponses ==
  {Response(st, "", ct, b) : st \in InterpStatuses, ct \in InterpContentTypes, b \in Bodies}

InterpOptions ==
  {o @@ PlainContent : o \in [host : {NoHost}, allowDirtyRead : {FALSE}, expectBinary : BOOLEAN]}

\* One host, two sockets; requests with and without expectBinary, answered by
\* any of the responses.
InterpInit ==
  Constructed([maxSockets |-> 1, keepAlive |-> TRUE], "NONE", 0, <<"http://h1">>, 0, 0)

InterpNext ==
  \/ \E opt \in InterpOptions : Request(opt) /\ ~Throwing'
  \/ \E p \in pending, res \in InterpResponses : TransportResponse(p, res) /\ ~Throwing'

InterpSpec == InterpInit /\ [][InterpNext]_vars

\* The last handler passed last.res to task.resolve.
Interpreted == last.ev = "response" /\ ~last.requeued

\* The request of the task the last handler was about asked for expectBinary.
LastBinary == tasks[last.task].expectBinary

\* The response has a non-empty body and a JSON content type.
JsonTyped(res) ==
  res.body # "" /\ res.contentType \in {"application/json", "text/json; charset=utf-8"}

\* C15: a response whose body parses to an object with the keys error, code,
\* errorMessage and errorNum is rejected with an ArangoError, whatever the
\* status and whether or not expectBinary was asked for.
C15_EnvelopeIsArangoError ==
  (Interpreted /\ JsonTyped(last.res) /\ last.res.body = "envelope")
    => /\ last.outcome = "ArangoError"
       /\ last.body = Value("envelope")
       /\ hist[last.task].sinkCalls = 1

\* A 200 response with an error envelope to an expectBinary request was rejected
\* with an ArangoError.
C15_Witness ==
  /\ Interpreted
  /\ JsonTyped(last.res)
  /\ last.res.body = "envelope"
  /\ last.res.statusCode = 200
  /\ LastBinary
  /\ last.outcome = "ArangoError"

\* C16: a response that is no leader redirect is settled in exactly one way, by
\* precedence: the parse error if one is surfaced, else ArangoError for an error
\* envelope, else HttpError for a status of 400 or more, else success, with the
\* parsed body (or the text of a body that is not JSON) attached unless
\* expectBinary was asked for.
C16_OutcomePrecedence ==
  Interpreted
    => LET res == last.res
           surfaced == JsonTyped(res) /\ res.body = "garbage" /\ ~LastBinary
           envelope == JsonTyped(res) /\ res.body = "envelope"
       IN /\ hist[last.task].sinkCalls = 1
          /\ last.outcome = (IF surfaced THEN "ParseError"
                              ELSE IF envelope THEN "ArangoError"
                              ELSE IF res.statusCode >= 400 THEN "HttpError"
                              ELSE "resolved")
          /\ last.outcome = "resolved"
               => last.body = (IF LastBinary THEN Raw(res.body)
                               ELSE IF JsonTyped(res) THEN Value(res.body)
                               ELSE Text(res.body))

\* A 399 response with a JSON object that has three of the four envelope keys
\* was delivered as success with the parsed body.
C16_Witness ==
  /\ Interpreted
  /\ last.res.statusCode = 399
  /\ JsonTyped(last.res)
  /\ last.res.body = "partial"
  /\ ~LastBinary
  /\ last.outcome = "resolved"
  /\ last.body = Value("partial")

\* C17: when a non-empty body with a JSON content type fails to parse, the
\* request is rejected with the parse error if and only if expectBinary is
\* false; with expectBinary the body as received goes through the status check.
C17_ParseErrorUnlessBinary ==
  (Interpreted /\ JsonTyped(last.res) /\ last.res.body = "garbage")
    => /\ last.outcome = "ParseError" <=> ~LastBinary
       /\ LastBinary
            => /\ last.outcome = (IF last.res.statusCode >= 400 THEN "HttpError"
                                   ELSE "resolved")
               /\ last.body = Raw("garbage")

\* An unparsable JSON response with status 400 to an expectBinary request was
\* rejected with an HttpError that carries the body as received.
C17_Witness ==
  /\ Interpreted
  /\ JsonTyped(last.res)
  /\ last.res.body = "garbage"
  /\ last.res.statusCode = 400
  /\ LastBinary
  /\ last.outcome = "HttpError"
  /\ last.body = Raw("garbage")

\* ----------------------------------------------------------------- headers
OneHeader(name, value) == [n \in {name} |-> value]

\* The names setHeader is called with, the transaction ids set and the headers
\* a caller supplies.
DefaultNames == {"content-type", "x-arango-trx-id"}
TransactionIds == {"", "t1"}
CallerHeaders ==
  {NoHeaders} \cup {OneHeader(n, "c") : n \in {"content-type", "x-arango-version",
                                                 "x-arango-trx-id"}}

HeaderOptions ==
  [host : {NoHost}, allowDirtyRead : {FALSE}, expectBinary : {FALSE},
   isBinary : BOOLEAN, body : {"none", "object"}, headers : CallerHeaders]

HeaderInit ==
  Constructed([maxSockets |-> 1, keepAlive |-> TRUE], "NONE", 0, <<"http://h1">>, 0, 0)

\* Any sequence of setTransactionId, clearTransactionId, setHeader and request.
HeaderNext ==
  \/ \E id \in TransactionIds : SetTransactionId(id)
  \/ ClearTransactionId
  \/ \E n \in DefaultNames : SetHeader(n, "d")
  \/ \E n \in DefaultNames : ClearHeader(n)
  \/ \E opt \in HeaderOptions : Request(opt) /\ ~Throwing'

HeaderSpec == HeaderInit /\ [][HeaderNext]_vars

\* A transaction is active: _transactionId is a non-empty string.
TransactionActive == ~transactionId.isNull /\ transactionId.id # ""

\* The headers of the task the step submitted.
Submitted_headers == tasks'[Len(tasks) + 1].headers

\* C18: the headers of a submitted request are, name by name, the value of the
\* latest layer that has the name, the layers being the default headers, then
\* content-type and x-arango-version, then x-arango-trx-id if a transaction is
\* active, then the caller's headers; no other name is sent.
C18_HeaderLayering ==
  [][\A opt \in HeaderOptions :
       Request(opt)
         => LET core == [n \in {"content-type", "x-arango-version"} |->
                           IF n = "x-arango-version" THEN "30400"
                           ELSE IF opt.isBinary THEN "application/octet-stream"
                           ELSE IF opt.body = "object" THEN "application/json"
                           ELSE "text/plain"]
                trx == IF TransactionActive
                       THEN OneHeader("x-arango-trx-id", transactionId.id)
                       ELSE NoHeaders
                sent == Submitted_headers
            IN /\ DOMAIN sent = DOMAIN headers \cup DOMAIN core \cup DOMAIN trx
                                   \cup DOMAIN opt.headers
               /\ \A n \in DOMAIN sent :
                    sent[n] = (IF n \in DOMAIN opt.headers THEN opt.headers[n]
                               ELSE IF n \in DOMAIN trx THEN trx[n]
                               ELSE IF n \in DOMAIN core THEN core[n]
                               ELSE headers[n])]_vars

\* With x-arango-trx-id and content-type among the default headers and a
\* transaction active, a request whose caller supplied x-arango-version was
\* submitted: each of the four layers decides one name or loses one.
C18_Witness ==
  /\ last.ev = "request"
  /\ DOMAIN headers = {"content-type", "x-arango-trx-id"}
  /\ transactionId = TransactionId("t1")
  /\ tasks[last.task].headers =
       [n \in {"content-type", "x-arango-version", "x-arango-trx-id"} |->
          IF n = "content-type" THEN "application/json"
          ELSE IF n = "x-arango-version" THEN "c"
          ELSE "t1"]

HostUrlLists == {<<u>> : u \in Urls} \cup {<<u, v>> : u \in Urls, v \in Urls}

HostInit ==
  \E cfgUrls \in HostUrlLists :
    Constructed([maxSockets |-> 1, keepAlive |-> FALSE], "NONE", 0, cfgUrls, 0, 0)

\* Explicit addToHostList calls, and requests whose responses may be leader
\* redirects.
HostNext ==
  \/ \E us \in HostUrlLists : AddToHostList(us)
  \/ \E opt \in PureOptions : Request(opt) /\ ~Throwing'
  \/ \E p \in pending, res \in Responses : TransportResponse(p, res) /\ ~Throwing'

HostSpec == HostInit /\ [][HostNext]_vars

\* C20: the host list has no two entries with the same normalized URL.
C20_NoDuplicateHosts ==
  \A i \in 1..Len(urls), j \in 1..Len(urls) : urls[i] = urls[j] => i = j

\* The URL, as the host list holds it, is in the host list.
Known(url) == \E i \in 1..Len(urls) : urls[i] = sanitizeUrl(url)

\* The index of the first entry of the host list that is the URL.
FirstIndexOf(url) ==
  (CHOOSE i \in 1..Len(urls) :
     urls[i] = sanitizeUrl(url) /\ \A j \in 1..(i - 1) : urls[j] # sanitizeUrl(url)) - 1

\* C21: addToHostList returns, for every URL given that is already in the host
\* list, the index of the first entry that is this URL, and when every URL
\* given is already in the list the list is the same after the call.
C21_ReAddReturnsOriginalIndex ==
  [][\A us \in HostUrlLists :
       AddToHostList(us)
         => /\ Len(last'.returned) = Len(us)
            /\ \A k \in 1..Len(us) :
                 Known(us[k]) => last'.returned[k] = FirstIndexOf(us[k])
            /\ (\A k \in 1..Len(us) : Known(us[k])) => urls' = urls]_vars

\* The last call re-added the second of two distinct hosts: it returned 1 and
\* the list still has two entries.
C21_Witness ==
  /\ last.ev = "addToHostList"
  /\ last.hosts = 2
  /\ urls = <<"http://h1", "http://h2">>
  /\ last.returned = <<1>>

\* ------------------------------------------------------------------ close
\* A connection with fail-over and the default maxRetries, closed at any moment
\* between two handlers.
CloseInit ==
  \E opts \in AgentOptionsChoices, cfgUrls \in UrlLists :
    Constructed(opts, "NONE", 0, cfgUrls, 0, 0)

CloseNext ==
  \/ Next
  \/ Close

CloseSpec == CloseInit /\ [][CloseNext]_vars

\* The step ran the callback of a transport call and did not queue its task again.
Completed == last'.ev \in {"error", "response"} /\ ~last'.requeued

\* C22 as claimed: after close() a completion of a task in transport still
\* invokes the task's sink, and no task is handed to a transport any more.
C22_NoDispatchAfterClose ==
  [][closed
       => /\ Completed => hist'[last'.task].sinkCalls = hist[last'.task].sinkCalls + 1
          /\ \A t \in 1..Len(tasks') : ~NewlySent(t)]_vars

\* C22 as amended: close() leaves the queue, the active-task counter, the
\* cursors, the host list and the calls in transport as they are; after it a
\* completion of a task in transport still invokes the task's sink, and tasks
\* are handed to transports as before: a request() that finds the queue empty
\* and a slot free sends its task, and a callback that finds a task waiting
\* sends the head of the queue.
C22_CloseOnlyReleasesSockets ==
  [][/\ Close => /\ closed'
                 /\ UNCHANGED <<activeTasks, queue, urls, activeHost, activeDirtyHost, pending>>
                 /\ \A t \in TaskIds : hist'[t].sinkCalls = hist[t].sinkCalls
     /\ closed
          => /\ Completed => hist'[last'.task].sinkCalls = hist[last'.task].sinkCalls + 1
             /\ (last'.ev = "request" /\ queue = <<>> /\ activeTasks < maxTasks)
                  => NewlySent(last'.task)
             /\ (last'.ev \in {"error", "response"} /\ queue # <<>>)
                  => NewlySent(Head(queue))]_vars

\* After close(), the task that was in transport has been settled and the task
\* that was waiting in the queue is in transport.
C22_Witness ==
  /\ closed
  /\ Len(tasks) = 2
  /\ last.ev = "response" /\ last.task = 1 /\ last.outcome = "resolved"
  /\ hist[1].sinkCalls = 1
  /\ hist[2].sends = 1
  /\ \E p \in pending : p.task = 2

\* ------------------------------------------------------------------ queue
\* What the step's handler appended to the queue: the task request() created or
\* the task a callback queued again.
Appended ==
  IF last'.ev = "request" \/ (last'.ev \in {"error", "response"} /\ last'.requeued)
  THEN <<last'.task>>
  ELSE <<>>

\* C23: every handler appends at most its own task to the tail of the queue and
\* then either sends no task and removes none, or sends exactly the head and
\* removes it; so tasks are sent in the order they were appended, a task queued
\* again is sent after all that were queued then, and a task leaves the queue
\* only by being sent.
C23_QueueIsFifo ==
  [][LET q == queue \o Appended
     IN \/ /\ queue' = q
           /\ \A t \in 1..Len(tasks') : ~NewlySent(t)
        \/ /\ q # <<>>
           /\ queue' = Tail(q)
           /\ \A t \in 1..Len(tasks') : NewlySent(t) <=> t = Head(q)]_vars

\* A refused task was queued again behind a task that had been waiting, and
\* that task, not the retried one, got the freed slot.
C23_Witness ==
  /\ maxTasks = 1
  /\ last.ev = "error" /\ last.requeued
  /\ queue = <<last.task>>
  /\ last.task = 1
  /\ \E p \in pending : p.task = 2 /\ hist[2].sends = 1

\* ---------------------------------------------------------- error statuses
\* Responses with a status of 400 or more, with and without x-arango-endpoint,
\* with an empty body and with an error envelope.
ErrorStatuses == {400, 500, 503}
StatusResponses ==
  {Response(st, ep, "application/json", b) :
     st \in ErrorStatuses, ep \in {"", "http://h2"}, b \in {"", "envelope"}}

\* Two hosts, fail-over, retries on.
StatusInit ==
  \E opts \in AgentOptionsChoices, cfgMaxRetries \in 0..MaxRetriesTried :
    Constructed(opts, "NONE", cfgMaxRetries, <<"http://h1", "http://h2">>, 0, 0)

StatusNext ==
  \/ \E opt \in RequestOptions(Len(urls)) : Request(opt)
  \/ \E p \in pending, err \in Errors : TransportError(p, err)
  \/ \E p \in pending, res \in StatusResponses : TransportResponse(p, res)
  \/ \E p \in pending : TransportThrew(p)

StatusSpec == StatusInit /\ [][StatusNext]_vars

\* The step ran callback(null, res) with a status of 400 or more that is no 503
\* with an x-arango-endpoint header.
ErrorStatusHandled ==
  /\ last'.ev = "response"
  /\ last'.res.statusCode >= 400
  /\ ~(last'.res.statusCode = 503 /\ last'.res.endpoint # "")

\* C24: the callback of a response with a status of 400 or more that is no 503
\* with x-arango-endpoint does not queue the task again and leaves its retries
\* as they are: it settles the task with the outcome of that response
\* (ArangoError for an error envelope, HttpError otherwise), and a settled task
\* is never handed to a transport again.
C24_ErrorStatusNotRetried ==
  [][/\ ErrorStatusHandled
          => LET t == last'.task
             IN /\ ~last'.requeued
                /\ last'.outcome = (IF last'.res.body = "envelope" THEN "ArangoError"
                                     ELSE "HttpError")
                /\ hist'[t].sinkCalls = 1
                /\ \A k \in 1..Len(queue') : queue'[k] # t
                /\ \A p \in pending' : p.task # t
     /\ \A t \in TaskIds : hist[t].sinkCalls > 0 => ~NewlySent(t)]_vars

\* A 500 response that carries x-arango-endpoint was delivered as an HttpError
\* to an unpinned task that had retries left.
C24_Witness ==
  /\ last.ev = "response"
  /\ last.res.statusCode = 500
  /\ last.res.endpoint = "http://h2"
  /\ last.res.body = ""
  /\ last.outcome = "HttpError"
  /\ ~last.requeued
  /\ last.retries = 0
  /\ hist[last.task].origHost = NoHost
  /\ hist[last.task].sinkCalls = 1

\* ------------------------------------------------------------- origin host
\* The transport call of task t that is in transport.
CallOf(t) == CHOOSE p \in pending : p.task = t

\* C25: a response handed to the interpreter carries as arangojsHostId the host
\* of the transport call that reported it, which is the host the task was last
\* sent to, also after a retry on another host or a leader redirect.
C25_OriginHostId ==
  [][(last'.ev = "response" /\ ~last'.requeued)
       => /\ \E p \in pending : p.task = last'.task
          /\ last'.hostId = CallOf(last'.task).host
          /\ last'.hostId \in 0..(Len(urls) - 1)]_vars

\* The response of a task that was refused by the first host and retried on the
\* second was delivered with host id 1 while the primary cursor points to the
\* first host again.
C25_Witness ==
  /\ last.ev = "response" /\ ~last.requeued
  /\ LastUnpinned
  /\ last.retries = 1
  /\ last.hostId = 1
  /\ activeHost = 0
  /\ hist[last.task].sinkCalls = 1

\* ------------------------------------------------------------------ exists
ExistsInit ==
  Constructed([maxSockets |-> 3, keepAlive |-> TRUE], "NONE", 0, <<"http://h1">>, 0, 0)

ExistsNext ==
  \/ \E kind \in Kinds, get \in GetOutcomes : ExistsCalled(kind, get)
  \/ ExistsReturns

ExistsSpec == ExistsInit /\ [][ExistsNext]_vars

\* The errorNum that says an object of the kind is missing.
NotFoundCodeOf(kind) ==
  IF kind = "Graph" THEN 1924 ELSE 1203

\* C26: exists() of a Collection, View or Graph resolves to true when get()
\* succeeds, resolves to false exactly when get() is rejected with an
\* ArangoError whose errorNum is the not-found code of the kind, and is
\* rejected with the error of get() in every other case.
C26_ExistsDispatchesOnErrorNum ==
  existsCall.result # NotSettled
    => LET get == existsCall.get
           result == existsCall.result
           missing == /\ ~get.ok
                      /\ get.err.isArangoError
                      /\ get.err.errorNum = NotFoundCodeOf(existsCall.kind)
       IN /\ get.ok => result = [settled |-> "resolved", value |-> TRUE, err |-> NoGetError]
          /\ (result.settled = "resolved" /\ ~result.value) <=> missing
          /\ (~get.ok /\ ~missing) => (result.settled = "rejected" /\ result.err = get.err)

\* exists() of a graph was rejected with the ArangoError of a missing
\* collection, which get() was rejected with.
C26_Witness ==
  /\ existsCall.kind = "Graph"
  /\ existsCall.get.err = [isArangoError |-> TRUE, errorNum |-> 1203, code |-> 404]
  /\ existsCall.result.settled = "rejected"
  /\ existsCall.result.err = existsCall.get.err

\* ------------------------------------------------------------- task states
\* How often task t is in the queue, and how many transport calls of it are
\* in transport.
TimesQueued(t) == Cardinality({k \in 1..Len(queue) : queue[k] = t})
TimesInFlight(t) == Cardinality({p \in pending : p.task = t})

\* Task t is completed: its sink has been invoked.
IsCompleted(t) == hist[t].sinkCalls > 0

\* C27: every submitted task is in exactly one of the states queued, in flight
\* and completed: it is in the queue once, or has one call in transport, or
\* its sink has been invoked, and never two of these; and a completed task
\* stays completed.
C27_ExactlyOneTaskState ==
  /\ [](\A t \in TaskIds :
          TimesQueued(t) + TimesInFlight(t) + (IF IsCompleted(t) THEN 1 ELSE 0) = 1)
  /\ [][\A t \in TaskIds : IsCompleted(t) => hist'[t].sinkCalls > 0]_vars

\* One task is completed while the other, queued again after a refused
\* attempt, is in transport for the second time.
C27_Witness ==
  /\ Len(tasks) = 2
  /\ \E t \in TaskIds, u \in TaskIds :
       /\ IsCompleted(t)
       /\ TimesQueued(t) + TimesInFlight(t) = 0
       /\ ~IsCompleted(u)
       /\ tasks[u].retries = 1
       /\ TimesInFlight(u) = 1 /\ TimesQueued(u) = 0

\* ------------------------------------------------------------------- pump
\* C28: when request() or a transport callback has returned (no callback of a
\* throwing transport is due), the queue is empty or every slot is taken: no
\* task waits while a slot is free.
C28_NoWaitingWithFreeSlot ==
  ~Throwing => (Len(queue) = 0 \/ activeTasks >= maxTasks)

\* With a single slot, the callback that rejected the first task with a
\* transport error handed the slot to the task that was waiting.
C28_Witness ==
  /\ ~Throwing
  /\ maxTasks = 1
  /\ LastDelivered
  /\ last.task = 1
  /\ queue = <<>>
  /\ activeTasks = 1
  /\ \E p \in pending : p.task = 2 /\ hist[2].sends = 1

\* --------------------------------------------------------------- fail-over
\* The _runQueue call that ends the step's handler sent an unpinned non-dirty
\* task under ROUND_ROBIN, which advances the primary cursor by one.
RoundRobinSent ==
  /\ loadBalancingStrategy = "ROUND_ROBIN"
  /\ \E t \in 1..Len(tasks') :
       NewlySent(t) /\ tasks'[t].host = NoHost /\ ~tasks'[t].allowDirtyRead

\* C29: the callback of a transport error of a task sent to host H sets the
\* primary cursor to (H + 1) mod |hosts| when the policy is not ROUND_ROBIN,
\* there is more than one host, the task is no dirty read and the cursor still
\* equals H; in every other case, and always under ROUND_ROBIN, the error
\* leaves the cursor as it is (under ROUND_ROBIN the cursor then advances by one
\* if the _runQueue call that ends the callback sends an unpinned non-dirty
\* task, as for every such task sent).
C29_FailoverAdvancesOnce ==
  [][last'.ev = "error"
       => LET H == last'.host
              n == Len(urls)
              advance == /\ loadBalancingStrategy # "ROUND_ROBIN"
                         /\ n > 1
                         /\ ~tasks[last'.task].allowDirtyRead
                         /\ activeHost = H
              afterError == IF advance THEN (H + 1) % n ELSE activeHost
          IN /\ Len(urls') = n
             /\ activeHost' = (IF RoundRobinSent THEN (afterError + 1) % n ELSE afterError)]_vars

\* Two unpinned tasks were in transport on the first of two hosts; the first
\* failed, moved the cursor to the second host and is in transport there; now
\* the second has failed on the first host and the cursor still points to the
\* second.
C29_Witness ==
  /\ loadBalancingStrategy = "NONE"
  /\ Len(urls) = 2
  /\ Len(tasks) = 2
  /\ last.ev = "error" /\ last.task = 2 /\ last.host = 0 /\ last.sends = 1
  /\ hist[2].origHost = NoHost /\ ~hist[2].redirected
  /\ hist[1].origHost = NoHost /\ ~hist[1].redirected
  /\ tasks[1].retries = 1 /\ hist[1].sends = 2
  /\ ~tasks[1].allowDirtyRead
  /\ \E p \in pending : p.task = 1 /\ p.host = 1
  /\ activeHost = 1

\* ------------------------------------------------------------ leader cursor
\* A connection that knows one host, http://h1, and learns of the leader
\* http://h2 from x-arango-endpoint only.
LeaderResponses == {res \in Responses : res.endpoint \in {"", "http://h2"}}

LeaderInit ==
  \E opts \in AgentOptionsChoices, strategy \in Strategies, cfgMaxRetries \in MaxRetriesChoices :
    Constructed(opts, strategy, cfgMaxRetries, <<"http://h1">>, 0, 0)

LeaderNext ==
  \/ \E opt \in RequestOptions(Len(urls)) : Request(opt)
  \/ \E p \in pending, err \in Errors : TransportError(p, err)
  \/ \E p \in pending, res \in LeaderResponses : TransportResponse(p, res)
  \/ \E p \in pending : TransportThrew(p)

LeaderSpec == LeaderInit /\ [][LeaderNext]_vars

\* The step ran the callback of a leader redirect.
LeaderStep == last'.ev = "response" /\ last'.requeued

\* The index of the leader the redirect of this step named.
LeaderIndex == IndexOf(urls', sanitizeUrl(last'.res.endpoint))

\* The step sent unpinned non-dirty task t.
SentUnpinned(t) == NewlySent(t) /\ tasks'[t].host = NoHost /\ ~tasks'[t].allowDirtyRead

\* The callback of a leader redirect of a task sent to host H sets the primary
\* cursor to the leader's index if it still equals H and leaves it otherwise
\* (under ROUND_ROBIN the cursor then advances by one if the _runQueue call that
\* ends the callback sends an unpinned non-dirty task).
RedirectMovesCursorIfStill ==
  LeaderStep
    => LET afterRedirect == IF activeHost = last'.host THEN LeaderIndex ELSE activeHost
       IN /\ LeaderIndex # NotFound
          /\ activeHost' = (IF RoundRobinSent THEN (afterRedirect + 1) % Len(urls')
                             ELSE afterRedirect)

\* The leader http://h2 is known: under NONE, a redirect of a task sent to the
\* only host, to which the cursor pointed, has set the cursor to index 1.
LeaderKnown == Len(urls) = 2

\* C30 as claimed: a leader redirect sets the primary cursor to the leader's
\* index if and only if it still equals H, and under NONE every unpinned
\* non-dirty task sent after the cursor was so set is sent to the leader.
C30_AllLaterTasksToLeader ==
  [][/\ RedirectMovesCursorIfStill
     /\ (loadBalancingStrategy = "NONE" /\ LeaderKnown)
          => \A t \in 1..Len(tasks') : SentUnpinned(t) => SentTo(t) = 1]_vars

\* C30 as amended: a leader redirect sets the primary cursor to the leader's
\* index if and only if it still equals H, and under NONE the unpinned
\* non-dirty tasks sent by that callback, and by every later handler while the
\* cursor points to the leader, are sent to the leader; the cursor leaves the
\* leader only in the callback of a later transport error or leader redirect.
C30_TasksToLeaderWhileCursorStays ==
  [][/\ RedirectMovesCursorIfStill
     /\ (loadBalancingStrategy = "NONE" /\ LeaderStep /\ activeHost = last'.host)
          => \A t \in 1..Len(tasks') : SentUnpinned(t) => SentTo(t) = LeaderIndex
     /\ (loadBalancingStrategy = "NONE" /\ LeaderKnown /\ activeHost = 1
           /\ ~HandledErrorOrRedirect)
          => /\ activeHost' = 1
             /\ \A t \in 1..Len(tasks') : SentUnpinned(t) => SentTo(t) = 1]_vars

\* Under NONE the first task was redirected from the only host to the leader,
\* and an unpinned task submitted after that is in transport on the leader.
C30_Witness ==
  /\ loadBalancingStrategy = "NONE"
  /\ urls = <<"http://h1", "http://h2">>
  /\ activeHost = 1
  /\ Len(tasks) = 2
  /\ hist[1].redirected
  /\ last.ev = "request" /\ last.task = 2
  /\ hist[2].origHost = NoHost /\ ~tasks[2].allowDirtyRead
  /\ \E p \in pending : p.task = 2 /\ p.host = 1

\* ------------------------------------------------------------ cursor range
\* C31: the primary cursor and the dirty-read cursor are indices of the host
\* list in every state, under every policy.
C31_CursorsInRange ==
  /\ activeHost \in 0..(Len(urls) - 1)
  /\ activeDirtyHost \in 0..(Len(urls) - 1)

\* A task was redirected to a leader, and a transport error on the second of
\* two hosts has wrapped the primary cursor to the first.
C31_Witness ==
  /\ loadBalancingStrategy = "NONE"
  /\ Len(urls) = 2
  /\ \E t \in TaskIds : hist[t].redirected
  /\ last.ev = "error" /\ last.host = 1
  /\ activeHost = 0

\* ------------------------------------------------------------ append-only
\* Explicit addToHostList calls, close(), and requests whose responses may be
\* leader redirects.
AppendNext ==
  \/ HostNext
  \/ Close

AppendSpec == HostInit /\ [][AppendNext]_vars

\* C32: in every step the host list keeps its entries, index for index, and
\* at most gains entries at its end.
C32_HostListAppendOnly ==
  [][/\ Len(urls') >= Len(urls)
     /\ \A i \in 1..Len(urls) : urls'[i] = urls[i]]_vars

\* After close(), an addToHostList call has added a second host behind the
\* first.
C32_Witness ==
  /\ closed
  /\ last.ev = "addToHostList"
  /\ last.hosts = 1
  /\ urls = <<"http://h2", "http://h1">>
  /\ last.returned = <<1, 0>>

\* -------------------------------------------------------------- dirty reads
\* Requests with and without allowDirtyRead, pinned and unpinned, on two hosts.
DirtyOptions ==
  {o @@ PlainContent :
     o \in [host : {NoHost, 0, 1}, allowDirtyRead : BOOLEAN, expectBinary : {FALSE}]}

DirtyInit ==
  \E opts \in AgentOptionsChoices, strategy \in Strategies, h \in 0..1, dh \in 0..1 :
    Constructed(opts, strategy, 0, <<"http://h1", "http://h2">>, h, dh)

DirtyNext ==
  \/ \E opt \in DirtyOptions : Request(opt)
  \/ \E p \in pending, err \in Errors : TransportError(p, err)
  \/ \E p \in pending, res \in Responses : TransportResponse(p, res)
  \/ \E p \in pending : TransportThrew(p)

DirtySpec == DirtyInit /\ [][DirtyNext]_vars

\* The primary cursor as the step's handler leaves it before the _runQueue call
\* that ends it: moved by the fail-over of a transport error, by a leader
\* redirect, or not at all.
CursorBeforeDispatch ==
  IF last'.ev = "error"
  THEN IF /\ loadBalancingStrategy # "ROUND_ROBIN"
          /\ Len(urls) > 1
          /\ ~tasks[last'.task].allowDirtyRead
          /\ activeHost = last'.host
       THEN (last'.host + 1) % Len(urls)
       ELSE activeHost
  ELSE IF LeaderStep /\ activeHost = last'.host THEN LeaderIndex
  ELSE activeHost

\* C33: a step that sends a task with allowDirtyRead leaves the primary cursor
\* where the step's handler put it before sending, and the callback of a
\* transport error of such a task leaves the primary cursor where it was (after
\* which only the sending of an unpinned non-dirty task under ROUND_ROBIN
\* advances it), under every policy.
C33_DirtyReadKeepsPrimaryCursor ==
  [][/\ (\E t \in 1..Len(tasks') : NewlySent(t) /\ tasks'[t].allowDirtyRead)
          => activeHost' = CursorBeforeDispatch
     /\ (last'.ev = "error" /\ tasks[last'.task].allowDirtyRead)
          => activeHost' = (IF RoundRobinSent THEN (activeHost + 1) % Len(urls)
                             ELSE activeHost)]_vars

\* Under NONE with two hosts a dirty read was refused by the host the primary
\* cursor points to, was queued again and sent again, and the primary cursor
\* still points to that host.
C33_Witness ==
  /\ loadBalancingStrategy = "NONE"
  /\ Len(urls) = 2
  /\ last.ev = "error" /\ last.requeued
  /\ tasks[last.task].allowDirtyRead
  /\ last.host = activeHost
  /\ \E p \in pending : p.task = last.task /\ hist[last.task].sends = 2

\* ------------------------------------------------------------ active tasks
\* C34: activeTasks is never negative and is the number of transport calls
\* made whose callback has not run, a call of a transport that threw and whose
\* callback is due included.
C34_ActiveTasksCountsCalls ==
  /\ activeTasks >= 0
  /\ activeTasks = Cardinality(pending)

\* A transport threw when it was called, its callback rejected the task, and
\* one other call is in transport.
C34_Witness ==
  /\ last.ev = "error"
  /\ last.err = PlainError
  /\ last.outcome = "TransportError"
  /\ activeTasks = 1
  /\ \E p \in pending : p.task # last.task /\ p.thrown = NoError

\* ------------------------------------------------------------ fixed headers
\* One slot and two hosts, so that a task waits in the queue and is retried,
\* while default headers and the transaction id are set and cleared.
SessionOptions ==
  {o @@ [isBinary |-> FALSE, body |-> "none"] :
     o \in [host : {NoHost}, allowDirtyRead : {FALSE}, expectBinary : {FALSE},
            headers : {NoHeaders, OneHeader("x-arango-trx-id", "c")}]}

SessionInit ==
  Constructed([maxSockets |-> 1, keepAlive |-> FALSE], "NONE", 0,
              <<"http://h1", "http://h2">>, 0, 0)

SessionNext ==
  \/ SetTransactionId("t1")
  \/ ClearTransactionId
  \/ \E n \in DefaultNames : SetHeader(n, "d")
  \/ \E n \in DefaultNames : ClearHeader(n)
  \/ \E opt \in SessionOptions : Request(opt)
  \/ \E p \in pending : TransportError(p, ConnRefused)
  \/ \E p \in pending, res \in PureResponses : TransportResponse(p, res)
  \/ \E p \in pending : TransportThrew(p)

SessionSpec == SessionInit /\ [][SessionNext]_vars

\* C35: the headers of a task that waits in the queue or is in transport are
\* the same after every step, whatever setHeader, setTransactionId or
\* clearTransactionId does and however often the task is sent.
C35_HeadersFixedAtRequest ==
  [][\A t \in TaskIds : Referenced(t) => tasks'[t].headers = tasks[t].headers]_vars

\* A task submitted without default headers and without a transaction is in
\* transport on its second attempt, after a default header and a transaction id
\* were set, and carries neither.
C35_Witness ==
  /\ transactionId = TransactionId("t1")
  /\ DOMAIN headers = {"content-type", "x-arango-trx-id"}
  /\ \E p \in pending :
       /\ hist[p.task].sends = 2
       /\ DOMAIN tasks[p.task].headers = {"content-type", "x-arango-version"}
       /\ tasks[p.task].headers["content-type"] = "text/plain"

\* ---------------------------------------------------------- one task alone
\* Under NONE with maxRetries 0 and one to three hosts, unpinned non-dirty
\* tasks are submitted one at a time, each when no other task is in the
\* system; an attempt is refused or answered.
SoloUrlLists ==
  {<<"http://h1">>, <<"http://h1", "http://h2">>, <<"http://h1", "http://h2", "http://h3">>}

SoloInit ==
  \E opts \in AgentOptionsChoices, cfgUrls \in SoloUrlLists :
    Constructed(opts, "NONE", 0, cfgUrls, 0, 0)

SoloNext ==
  \/ \E opt \in PureOptions : Request(opt) /\ queue = <<>> /\ pending = {} /\ ~Throwing'
  \/ \E p \in pending : TransportError(p, ConnRefused) /\ ~Throwing'
  \/ \E p \in pending, res \in PureResponses : TransportResponse(p, res) /\ ~Throwing'

SoloSpec == SoloInit /\ [][SoloNext]_vars

\* C36: the task is first sent to the host the primary cursor points to; an
\* attempt refused by host H is followed by an attempt on host (H + 1) mod n as
\* long as fewer than n attempts were made, and the n-th refusal is delivered:
\* n refused attempts are made on cursor, cursor + 1, ... modulo n, n distinct
\* hosts.  For the first task, whose cursor is 0, attempt k is on host k - 1.
C36_RefusedAttemptsWalkHosts ==
  /\ [][LET n == Len(urls)
            t == last'.task
        IN /\ last'.ev = "request" => (NewlySent(t) /\ SentTo(t) = activeHost)
           /\ last'.ev = "error"
                => IF last'.sends < n
                   THEN /\ last'.requeued
                        /\ NewlySent(t)
                        /\ SentTo(t) = (last'.host + 1) % n
                        /\ hist'[t].sends = last'.sends + 1
                   ELSE /\ last'.sends = n
                        /\ ~last'.requeued
                        /\ last'.outcome = "TransportError"]_vars
  /\ [](\A p \in pending : p.task = 1 => p.host = hist[1].sends - 1)

\* With three hosts the first task was refused by the first host and answered
\* by the second; the second task, alone, was refused by the second, the third
\* and the first host, and the error is delivered.
C36_Witness ==
  /\ Len(urls) = 3
  /\ last.ev = "error" /\ last.task = 2
  /\ LastDelivered
  /\ last.sends = 3
  /\ last.host = 0
  /\ activeHost = 1

\* ------------------------------------------------------------------ rename
RenameInit ==
  Constructed([maxSockets |-> 3, keepAlive |-> TRUE], "NONE", 0, <<"http://h1">>, 0, 0)

RenameNext ==
  \/ \E name \in Names : Collection_rename(name)
  \/ \E name \in Names, ok \in BOOLEAN : Collection_renameResumes(name, ok)
  \/ \E newName \in Names : View_rename(newName)
  \/ \E newName \in Names, ok \in BOOLEAN : View_renameSettles(newName, ok)

RenameSpec == RenameInit /\ [][RenameNext]_vars

\* C37: Collection.rename changes the handle's name and id prefix only when
\* its request has succeeded: issuing the request changes neither, a rejected
\* request changes neither, and a successful one sets the name to the new name
\* and the id prefix to the new name followed by a slash.
C37_CollectionRenamedOnSuccess ==
  [][/\ \A name \in Names :
          Collection_rename(name)
            => collection'.name = collection.name /\ collection'.idPrefix = collection.idPrefix
     /\ \A name \in Names :
          Collection_renameResumes(name, FALSE)
            => collection'.name = collection.name /\ collection'.idPrefix = collection.idPrefix
     /\ \A name \in Names :
          Collection_renameResumes(name, TRUE)
            => collection'.name = name /\ collection'.idPrefix = <<name, "/">>]_vars

\* The rename of collection a to b has succeeded and no rename is awaited: the
\* handle is named b.
C37_Witness ==
  /\ collection.name = "b"
  /\ collection.idPrefix = <<"b", "/">>
  /\ collection.renames = {}

\* C38: View.rename changes the handle's name only if its request succeeds:
\* issuing the request leaves the name, a rejected request leaves the name, and
\* a successful one sets it to the new name.
C38_ViewRenamedOnSuccess ==
  [][/\ \A newName \in Names :
          View_rename(newName) => view'.name = view.name
     /\ \A newName \in Names :
          View_renameSettles(newName, FALSE) => view'.name = view.name
     /\ \A newName \in Names :
          View_renameSettles(newName, TRUE) => view'.name = newName]_vars

\* ------------------------------------------------------------------ graph reads
\* The options of a graph read: rev is "" when it is not given (or empty: the
\* test `if (rev)` takes both the same way); an allowDirtyRead that is not given
\* is false to the connection. The option graceful only maps the promise the
\* call returns (a document-not-found error becomes null) and is no part of
\* the request.
ReadOptions == [rev : {"", "r1"}, allowDirtyRead : BOOLEAN]

\* const headers = {}; if (rev) headers["if-match"] = rev;
IfMatch(rev) == IF rev # "" THEN OneHeader("if-match", rev) ELSE NoHeaders

\* GraphVertexCollection.vertex(selector, options): the request carries the
\* headers built from rev.
Vertex(options) ==
  /\ options \in ReadOptions
  /\ Request([host |-> NoHost, allowDirtyRead |-> options.allowDirtyRead,
              expectBinary |-> FALSE, headers |-> IfMatch(options.rev)] @@ PlainContent)

\* GraphEdgeCollection.edge(selector, options): the headers are built from rev
\* as in vertex, but the request options name no headers.
Edge(options) ==
  /\ options \in ReadOptions
  /\ Request([host |-> NoHost, allowDirtyRead |-> options.allowDirtyRead,
              expectBinary |-> FALSE, headers |-> NoHeaders] @@ PlainContent)

GraphInit ==
  Constructed([maxSockets |-> 1, keepAlive |-> FALSE], "NONE", 0,
              <<"http://h1", "http://h2">>, 0, 0)

GraphNext ==
  \/ \E options \in ReadOptions : Vertex(options)
  \/ \E options \in ReadOptions : Edge(options)
  \/ \E p \in pending : TransportError(p, ConnRefused)
  \/ \E p \in pending, res \in PureResponses : TransportResponse(p, res)

GraphSpec == GraphInit /\ [][GraphNext]_vars

\* C39: vertex and edge called with options.rev = r both issue their read
\* request with the header if-match: r.
C39_ReadsSendIfMatch ==
  [][\A options \in ReadOptions :
       options.rev # "" /\ (Vertex(options) \/ Edge(options))
         => LET t == Len(tasks) + 1
            IN /\ "if-match" \in DOMAIN tasks'[t].headers
               /\ tasks'[t].headers["if-match"] = options.rev]_vars

====
